---- MODULE Spec2Model ----
(***************************************************************************)
(* Assembly of the 5-point finite-difference system of solver.cpp:         *)
(* main's build / solve / reshape sequence, buildProblem's loop nest,      *)
(* insertCoefficient's neighbour resolution and circularConditionsCheck.   *)
(*                                                                         *)
(* Numbers.  Grid sizes and extents are ints in the source; box voltages   *)
(* and circle parameters are floats, weights and rhs entries doubles.  The *)
(* model draws all of them from small integers, which float and double     *)
(* represent exactly, so w * V and b(id) -= ... are exact.  The grid       *)
(* spacing dx = (xmax - xmin) / nx is a fraction; the point-in-circle      *)
(* comparison is evaluated exactly by scaling both sides by (nx*ny)^2.     *)
(***************************************************************************)
EXTENDS Integers, Sequences, FiniteSets

\* ---------------------------------------------------------------- bounds
MaxN == 3
MaxCircles == 2
MaxAnyOrderPoints == 4

\* Input domains the configurations are drawn from.
Extents == {<<0, 3>>, <<0, 2>>}
BoxVoltages == {<<0, 0, 0, 0>>, <<1, 2, 4, 8>>}
CircleChoices == {<<1, 1, 0, 16>>, <<0, 0, 0, 32>>, <<1, 1, 1, 48>>, <<-2, 0, 1, 64>>}
Garbage == {0, 7}

RECURSIVE SeqsUpTo(_, _)
SeqsUpTo(S, n) ==
    IF n = 0 THEN {<<>>}
    ELSE LET shorter == SeqsUpTo(S, n - 1)
         IN shorter \cup {Append(s, e) : s \in {t \in shorter : Len(t) = n - 1}, e \in S}

\* ----------------------------------------------------------------- state
VARIABLES
    ic,            \* 3x2 int matrix: (nx ny; xmin xmax; ymin ymax)
    bc_grid,       \* box voltages: up, down, left, right
    circles,       \* rows (x_offset, y_offset, radius, voltage)
    coefficients,  \* std::vector<T> of triplets (row, col, value)
    b,             \* right-hand side, indexed 0 .. nx*ny-1
    i, j,          \* buildProblem's loop counters
    pc,            \* position in main / buildProblem
    rowOf,         \* id computed by buildProblem for each point visited so
                   \* far in this execution, -1 for a point not yet visited
    x,             \* the solver's result vector
    result,        \* the reshaped ny-by-nx result matrix
    run,           \* which execution of the build this is
    coefficients1, b1  \* what the first execution produced

cfg == <<ic, bc_grid, circles>>
vars == <<ic, bc_grid, circles, coefficients, b, i, j, pc, rowOf, x, result,
          run, coefficients1, b1>>

nx == ic[0][0]
ny == ic[0][1]
Ids == 0 .. (nx * ny - 1)
Points == (0 .. nx - 1) \X (0 .. ny - 1)

\* circles(k, c) with zero-based row and column
circlesAt(k, c) == circles[k + 1][c + 1]

\* circles.size(): rows * cols of the Eigen matrix
circlesSize == Len(circles) * 4

\* ------------------------------------------------ circularConditionsCheck
\* The comparison of lines 178-180 for one circle, with
\* dx = (ic(1,1)-ic(1,0))/nx and dy = (ic(2,1)-ic(2,0))/ny, both sides
\* multiplied by (nx*ny)^2.
inCircle(ci, cj, current_circle) ==
    LET sx == (ic[1][0] * nx + ci * (ic[1][1] - ic[1][0])
                 - circlesAt(current_circle, 0) * nx) * ny
        sy == (ic[2][0] * ny + cj * (ic[2][1] - ic[2][0])
                 - circlesAt(current_circle, 1) * ny) * nx
        sr == circlesAt(current_circle, 2) * nx * ny
    IN  sx * sx + sy * sy <= sr * sr

RECURSIVE circleLoop(_, _, _)
circleLoop(ci, cj, current_circle) ==
    IF current_circle >= Len(circles) THEN <<FALSE, 0>>
    ELSE IF inCircle(ci, cj, current_circle) THEN <<TRUE, current_circle>>
    ELSE circleLoop(ci, cj, current_circle + 1)

\* Variant: the scan does not stop at the first match, the last one wins.
RECURSIVE circleLoopLast(_, _, _, _)
circleLoopLast(ci, cj, current_circle, found) ==
    IF current_circle >= Len(circles) THEN found
    ELSE IF inCircle(ci, cj, current_circle)
         THEN circleLoopLast(ci, cj, current_circle + 1, <<TRUE, current_circle>>)
         ELSE circleLoopLast(ci, cj, current_circle + 1, found)

circularConditionsCheckLast(ci, cj) == circleLoopLast(ci, cj, 0, <<FALSE, 0>>)

circularConditionsCheck(ci, cj) == circleLoop(ci, cj, 0)

\* ------------------------------------------------------ insertCoefficient
\* The branch chain of lines 207-217 with its variation points as
\* parameters: the neighbour's column index id1, the sizes the east and
\* south tests compare with, the left and right voltages, the circle test
\* placed before the box tests or not, made at all or not, and the rhs slot
\* a circle's voltage is folded into.
branches(id, ni, nj, w, coeffs, bv, id1, east, south, vl, vr, circleFirst, circleTest, slot) ==
    LET isCircle == IF circleTest /\ circlesSize # 0
                    THEN circularConditionsCheck(ni, nj)
                    ELSE <<FALSE, 0>>
        fold(k, v) == [coeffs |-> coeffs, b |-> [bv EXCEPT ![k] = @ - w * v]]
    IN  IF circleFirst /\ isCircle[1] THEN fold(slot, circlesAt(isCircle[2], 3))
        ELSE IF ni = -1 THEN fold(id, vl)
        ELSE IF ni = east THEN fold(id, vr)
        ELSE IF nj = -1 THEN fold(id, bc_grid[0])
        ELSE IF nj = south THEN fold(id, bc_grid[1])
        ELSE IF isCircle[1] THEN fold(slot, circlesAt(isCircle[2], 3))
        ELSE [coeffs |-> Append(coeffs, <<id, id1, w>>), b |-> bv]

\* Variant: a neighbour inside a circle is treated as an unknown.
insertCoefficientNoCircle(id, ni, nj, w, coeffs, bv) ==
    branches(id, ni, nj, w, coeffs, bv, ni + nj * ic[0][0], ic[0][0], ic[0][1],
             bc_grid[2], bc_grid[3], FALSE, FALSE, id)

\* Variant: the left and right box voltages exchanged.
insertCoefficientLeftRight(id, ni, nj, w, coeffs, bv) ==
    branches(id, ni, nj, w, coeffs, bv, ni + nj * ic[0][0], ic[0][0], ic[0][1],
             bc_grid[3], bc_grid[2], FALSE, TRUE, id)

\* Variant: the east test compares with ny and the south test with nx.
insertCoefficientSwappedDims(id, ni, nj, w, coeffs, bv) ==
    branches(id, ni, nj, w, coeffs, bv, ni + nj * ic[0][0], ic[0][1], ic[0][0],
             bc_grid[2], bc_grid[3], FALSE, TRUE, id)

\* Variant: a circle's voltage is folded into the neighbour's rhs slot.
insertCoefficientWrongSlot(id, ni, nj, w, coeffs, bv) ==
    branches(id, ni, nj, w, coeffs, bv, ni + nj * ic[0][0], ic[0][0], ic[0][1],
             bc_grid[2], bc_grid[3], FALSE, TRUE, ni + nj * ic[0][0])

\* Variant: the circle test ahead of the four box tests.
insertCoefficientCircleFirst(id, ni, nj, w, coeffs, bv) ==
    branches(id, ni, nj, w, coeffs, bv, ni + nj * ic[0][0], ic[0][0], ic[0][1],
             bc_grid[2], bc_grid[3], TRUE, TRUE, id)

\* Variant: the column index flattened with stride ny.
insertCoefficientStride(id, ni, nj, w, coeffs, bv) ==
    branches(id, ni, nj, w, coeffs, bv, ni + nj * ic[0][1], ic[0][0], ic[0][1],
             bc_grid[2], bc_grid[3], FALSE, TRUE, id)

\* Returns the coefficient list and rhs after the call.
insertCoefficient(id, ni, nj, w, coeffs, bv) ==
    LET id1 == ni + nj * ic[0][0]
        isCircle == IF circlesSize # 0 THEN circularConditionsCheck(ni, nj)
                    ELSE <<FALSE, 0>>
        fold(v) == [coeffs |-> coeffs, b |-> [bv EXCEPT ![id] = @ - w * v]]
    IN  IF ni = -1 THEN fold(bc_grid[2])
        ELSE IF ni = ic[0][0] THEN fold(bc_grid[3])
        ELSE IF nj = -1 THEN fold(bc_grid[0])
        ELSE IF nj = ic[0][1] THEN fold(bc_grid[1])
        ELSE IF isCircle[1] THEN fold(circlesAt(isCircle[2], 3))
        ELSE [coeffs |-> Append(coeffs, <<id, id1, w>>), b |-> bv]

\* ------------------------------------------------------------------- Init
\* main, lines 31-54: configuration loaded, coefficient list empty, b
\* allocated but not initialised.
Init ==
    /\ \E n1 \in 1 .. MaxN, n2 \in 1 .. MaxN, ex \in Extents, ey \in Extents :
          ic = [r \in 0 .. 2 |->
                  IF r = 0 THEN [c \in 0 .. 1 |-> IF c = 0 THEN n1 ELSE n2]
                  ELSE IF r = 1 THEN [c \in 0 .. 1 |-> ex[c + 1]]
                  ELSE [c \in 0 .. 1 |-> ey[c + 1]]]
    /\ \E bc \in BoxVoltages : bc_grid = [s \in 0 .. 3 |-> bc[s + 1]]
    /\ circles \in SeqsUpTo(CircleChoices, MaxCircles)
    /\ coefficients = <<>>
    /\ \E g \in Garbage : b = [id \in Ids |-> g]
    /\ i = 0
    /\ j = 0
    /\ pc = "build"
    /\ rowOf = [p \in Points |-> -1]
    /\ x = <<>>
    /\ result = <<>>
    /\ run = 1
    /\ coefficients1 = <<>>
    /\ b1 = <<>>

\* ----------------------------------------------------------- buildProblem
\* Variant: b is not zeroed.
SetZeroSkipped ==
    /\ pc = "build"
    /\ pc' = "init"
    /\ UNCHANGED <<cfg, coefficients, b, i, j, rowOf, x, result, run, coefficients1, b1>>

\* b.setZero(), line 226.
SetZero ==
    /\ pc = "build"
    /\ b' = [id \in Ids |-> 0]
    /\ pc' = "init"
    /\ UNCHANGED <<cfg, coefficients, i, j, rowOf, x, result, run, coefficients1, b1>>

\* Lines 229-230 on entry: j = 0, i = 0 and the loop conditions.
LoopInit ==
    /\ pc = "init"
    /\ i' = 0
    /\ j' = 0
    /\ pc' = IF 0 < ic[0][1] /\ 0 < ic[0][0] THEN "point" ELSE "built"
    /\ UNCHANGED <<cfg, coefficients, b, rowOf, x, result, run, coefficients1, b1>>

\* ++i of the inner loop, and ++j with i reset when the inner loop ends.
NextI == IF i + 1 < ic[0][0] THEN i + 1 ELSE 0
NextJ == IF i + 1 < ic[0][0] THEN j ELSE j + 1

\* Lines 229-230 after a point: the increments and the loop conditions;
\* buildProblem returns when the outer loop ends.
LoopInc ==
    /\ pc = "inc"
    /\ i' = NextI
    /\ j' = NextJ
    /\ pc' = IF NextJ < ic[0][1] THEN "point" ELSE "built"
    /\ UNCHANGED <<cfg, coefficients, b, rowOf, x, result, run, coefficients1, b1>>

\* Variant: a pinned point is not skipped by continue and goes on to the
\* stencil.
PointCheckNoContinue ==
    /\ pc = "point"
    /\ LET id == i + j * ic[0][0]
           isCircle == circularConditionsCheck(i, j)
       IN  /\ rowOf' = [rowOf EXCEPT ![<<i, j>>] = id]
           /\ IF circlesSize # 0 /\ isCircle[1]
              THEN /\ coefficients' = Append(coefficients, <<id, id, 1>>)
                   /\ b' = [b EXCEPT ![id] = circlesAt(isCircle[2], 3)]
              ELSE UNCHANGED <<coefficients, b>>
           /\ pc' = "west"
    /\ UNCHANGED <<cfg, i, j, x, result, run, coefficients1, b1>>

\* Lines 233-245: the flat id, and the pinning of a point that lies in a
\* circle (continue), else on to the stencil.
PointCheck ==
    /\ pc = "point"
    /\ LET id == i + j * ic[0][0]
           isCircle == circularConditionsCheck(i, j)
       IN  /\ rowOf' = [rowOf EXCEPT ![<<i, j>>] = id]
           /\ IF circlesSize # 0 /\ isCircle[1]
              THEN /\ coefficients' = Append(coefficients, <<id, id, 1>>)
                   /\ b' = [b EXCEPT ![id] = circlesAt(isCircle[2], 3)]
                   /\ pc' = "inc"
              ELSE /\ pc' = "west"
                   /\ UNCHANGED <<coefficients, b>>
    /\ UNCHANGED <<cfg, i, j, x, result, run, coefficients1, b1>>

\* One insertCoefficient call of lines 247-251 for the current point.
Call(at, ni, nj, w, to) ==
    /\ pc = at
    /\ LET r == insertCoefficient(i + j * ic[0][0], ni, nj, w, coefficients, b)
       IN  /\ coefficients' = r.coeffs
           /\ b' = r.b
    /\ pc' = to
    /\ UNCHANGED <<cfg, i, j, rowOf, x, result, run, coefficients1, b1>>

InsertWest == Call("west", i - 1, j, -1, "east")

InsertEast == Call("east", i + 1, j, -1, "north")

InsertNorth == Call("north", i, j - 1, -1, "south")

InsertSouth == Call("south", i, j + 1, -1, "self")

InsertSelf == Call("self", i, j, 4, "inc")

\* ------------------------------------------------------------------- main
\* Lines 63-68.  The Cholesky solve is Eigen's; its result is represented by
\* one distinguishable value per unknown, solution(id).
solution(id) == 100 + id

Solve ==
    /\ pc = "built"
    /\ x' = [id \in Ids |-> solution(id)]
    /\ pc' = "reshape"
    /\ UNCHANGED <<cfg, coefficients, b, i, j, rowOf, result, run, coefficients1, b1>>

\* Variant: the solution read column-major.
reshapeColumnMajor(ri, rj) == x[rj + ri * ic[0][1]]

\* Lines 81-88: result(j,i) = x(i + j*x_grid_size).
reshape(ri, rj) == x[ri + rj * ic[0][0]]

Reshape ==
    /\ pc = "reshape"
    /\ result' = [rj \in 0 .. ic[0][1] - 1 |->
                    [ri \in 0 .. ic[0][0] - 1 |-> reshape(ri, rj)]]
    /\ pc' = "done"
    /\ UNCHANGED <<cfg, coefficients, b, i, j, rowOf, x, run, coefficients1, b1>>

\* The program executed again on the same input: lines 53-54 give a fresh
\* coefficient list and a fresh uninitialised b.
Rerun ==
    /\ pc = "done"
    /\ run = 1
    /\ coefficients1' = coefficients
    /\ b1' = b
    /\ coefficients' = <<>>
    /\ \E g \in Garbage : b' = [id \in Ids |-> g]
    /\ rowOf' = [p \in Points |-> -1]
    /\ run' = 2
    /\ pc' = "build"
    /\ UNCHANGED <<cfg, i, j, x, result>>

Next ==
    \/ SetZero
    \/ LoopInit
    \/ LoopInc
    \/ PointCheck
    \/ InsertWest
    \/ InsertEast
    \/ InsertNorth
    \/ InsertSouth
    \/ InsertSelf
    \/ Solve
    \/ Reshape
    \/ Rerun

Spec == Init /\ [][Next]_vars

\* ------------------------------------------ points visited in any order
\* The per-point body of lines 233-251 is the code's; only the choice of
\* the next point differs from the loop nest: any point not yet visited.
Unvisited == {p \in Points : rowOf[p] = -1}

AnyOrderNext ==
    /\ pc \in {"init", "inc"}
    /\ run = 1
    /\ IF Unvisited = {}
       THEN pc' = "built" /\ UNCHANGED <<i, j>>
       ELSE \E p \in Unvisited : i' = p[1] /\ j' = p[2] /\ pc' = "point"
    /\ UNCHANGED <<cfg, coefficients, b, rowOf, x, result, run, coefficients1, b1>>

RowMajorInit == run = 2 /\ LoopInit

RowMajorInc == run = 2 /\ LoopInc

InitAnyOrder == Init /\ ic[0][0] * ic[0][1] <= MaxAnyOrderPoints

NextAnyOrder ==
    \/ SetZero
    \/ AnyOrderNext
    \/ RowMajorInit
    \/ RowMajorInc
    \/ PointCheck
    \/ InsertWest
    \/ InsertEast
    \/ InsertNorth
    \/ InsertSouth
    \/ InsertSelf
    \/ Solve
    \/ Reshape
    \/ Rerun

SpecAnyOrder == InitAnyOrder /\ [][NextAnyOrder]_vars

\* ------------------------------------------------ vocabulary of the claims
\* buildProblem has returned.
Built == pc \in {"built", "reshape", "done"}

flat(p) == p[1] + p[2] * nx

\* Grid point or neighbour position p = (pi, pj) lies within circle k
\* (1-based): (xmin + pi*dx - cx)^2 + (ymin + pj*dy - cy)^2 <= r^2, with the
\* x term cleared of its denominator nx and the y term of ny.
WithinRadius(p, k) ==
    LET numx == nx * (ic[1][0] - circles[k][1]) + p[1] * (ic[1][1] - ic[1][0])
        numy == ny * (ic[2][0] - circles[k][2]) + p[2] * (ic[2][1] - ic[2][0])
    IN  numx * numx * ny * ny + numy * numy * nx * nx
            <= circles[k][3] * circles[k][3] * nx * nx * ny * ny

Containing(p) == {k \in 1 .. Len(circles) : WithinRadius(p, k)}

Pinned(p) == Containing(p) # {}

FirstContaining(p) == CHOOSE k \in Containing(p) : \A m \in Containing(p) : k <= m

\* Positions in the coefficient list holding an entry (r, c, .).
At(r, c) == {n \in DOMAIN coefficients :
                coefficients[n][1] = r /\ coefficients[n][2] = c}

InRow(r) == {n \in DOMAIN coefficients : coefficients[n][1] = r}

Neighbours(p) == {<<p[1] - 1, p[2]>>, <<p[1] + 1, p[2]>>,
                  <<p[1], p[2] - 1>>, <<p[1], p[2] + 1>>}

\* The insertCoefficient call made from the current position, if any.
InCall == pc \in {"west", "east", "north", "south", "self"}
callNi == IF pc = "west" THEN i - 1 ELSE IF pc = "east" THEN i + 1 ELSE i
callNj == IF pc = "north" THEN j - 1 ELSE IF pc = "south" THEN j + 1 ELSE j
callW == IF pc = "self" THEN 4 ELSE -1
callId == i + j * nx
OutOfGrid == callNi = -1 \/ callNi = nx \/ callNj = -1 \/ callNj = ny
FoldedWith(v) == b' = [b EXCEPT ![callId] = @ - callW * v]

\* C1: after buildProblem completes, every off-diagonal coefficient (r,c,w)
\* has its mirror (c,r,w) in the list, both indices are unknowns of the
\* grid, and no point pinned by an inclusion is the column of another row.
C1_Symmetry ==
    Built =>
        \A n \in DOMAIN coefficients :
            LET t == coefficients[n]
            IN  t[1] # t[2] =>
                  /\ t[1] \in Ids /\ t[2] \in Ids
                  /\ \E m \in DOMAIN coefficients :
                        coefficients[m] = <<t[2], t[1], t[3]>>
                  /\ \A p \in Points : flat(p) = t[2] => ~Pinned(p)

\* A completed build with an off-diagonal coefficient and an unpinned point
\* that has a pinned neighbour inside the grid.
C1_Witness ==
    /\ Built
    /\ \E n \in DOMAIN coefficients : coefficients[n][1] # coefficients[n][2]
    /\ \E p \in Points : ~Pinned(p) /\ \E q \in Neighbours(p) \cap Points : Pinned(q)

\* C2: a grid point within the radius of at least one inclusion has exactly
\* one coefficient in its row, (id,id,1), and rhs[id] is the voltage of the
\* first inclusion in list order containing it, edge-adjacent or not.
C2_Pinning ==
    Built =>
        \A p \in Points :
            Pinned(p) =>
                /\ \E n \in DOMAIN coefficients :
                      /\ InRow(flat(p)) = {n}
                      /\ coefficients[n] = <<flat(p), flat(p), 1>>
                /\ b[flat(p)] = circles[FirstContaining(p)][4]

\* A completed build with a point on the box edge that lies in two
\* inclusions of different voltage, the later one listed with the lower
\* or the higher voltage.
C2_Witness ==
    /\ Built
    /\ \E p \in Points :
          /\ p[1] \in {0, nx - 1} \/ p[2] \in {0, ny - 1}
          /\ \E k, m \in Containing(p) : circles[k][4] # circles[m][4]

\* C3: an insertCoefficient call for a neighbour one step outside a grid
\* edge emits no coefficient and changes only rhs[id], by -w * V, V being
\* left for ni = -1, right for ni = nx, up for nj = -1, down for nj = ny.
C3_BoundaryFolding ==
    [][InCall /\ OutOfGrid =>
          /\ coefficients' = coefficients
          /\ callNi = -1 => FoldedWith(bc_grid[2])
          /\ callNi = nx => FoldedWith(bc_grid[3])
          /\ callNj = -1 => FoldedWith(bc_grid[0])
          /\ callNj = ny => FoldedWith(bc_grid[1])]_vars

\* The four neighbour calls of the single point of a 1x1 grid have all
\* folded, with four different box voltages.
C3_Witness ==
    /\ pc = "self"
    /\ nx = 1 /\ ny = 1
    /\ circles = <<>>
    /\ coefficients = <<>>
    /\ bc_grid[0] = 1 /\ bc_grid[1] = 2 /\ bc_grid[2] = 4 /\ bc_grid[3] = 8
    /\ b[0] = 15

\* C4: with no inclusions each row id = i + j*nx has one diagonal entry 4,
\* one entry -1 for each of its four neighbours inside the grid, no other
\* entry, and rhs[id] is the sum of the voltages of the sides it touches.
C4_Laplacian ==
    Built /\ circles = <<>> =>
        \A p \in Points :
            LET id == flat(p)
                inside == Neighbours(p) \cap Points
            IN  /\ \E n \in DOMAIN coefficients :
                      At(id, id) = {n} /\ coefficients[n][3] = 4
                /\ \A q \in inside :
                      \E n \in DOMAIN coefficients :
                          At(id, flat(q)) = {n} /\ coefficients[n][3] = -1
                /\ Cardinality(InRow(id)) = 1 + Cardinality(inside)
                /\ b[id] = (IF p[1] = 0 THEN bc_grid[2] ELSE 0)
                         + (IF p[1] = nx - 1 THEN bc_grid[3] ELSE 0)
                         + (IF p[2] = 0 THEN bc_grid[0] ELSE 0)
                         + (IF p[2] = ny - 1 THEN bc_grid[1] ELSE 0)

\* A completed build without inclusions on a grid with corner, edge and
\* (from 3x3 on) interior points and four different box voltages.
C4_Witness ==
    /\ Built
    /\ circles = <<>>
    /\ nx >= 3 /\ ny >= 3
    /\ bc_grid[2] # bc_grid[3]
    /\ Len(coefficients) = 5 * nx * ny - 2 * nx - 2 * ny

\* C5: a second execution of the build on the same input yields the same
\* coefficient list, entry by entry in the same order, and the same rhs.
C5_Idempotence ==
    run = 2 /\ Built => coefficients = coefficients1 /\ b = b1

\* The second execution has completed on a grid with pinned and unpinned
\* points.
C5_Witness ==
    /\ run = 2
    /\ pc = "done"
    /\ \E p, q \in Points : Pinned(p) /\ ~Pinned(q)

\* Sum of the coefficient values at the list positions S.
RECURSIVE SumVals(_)
SumVals(S) ==
    IF S = {} THEN 0
    ELSE LET n == CHOOSE m \in S : TRUE
         IN  coefficients[n][3] + SumVals(S \ {n})

\* The matrix setFromTriplets builds: duplicates summed.
A(r, c) == SumVals(At(r, c))

Abs(v) == IF v < 0 THEN -v ELSE v

RECURSIVE SumAbsRow(_, _)
SumAbsRow(r, C) ==
    IF C = {} THEN 0
    ELSE LET c == CHOOSE m \in C : TRUE
         IN  Abs(A(r, c)) + SumAbsRow(r, C \ {c})

\* C6: in the summed matrix an unpinned row has diagonal 4 and at most four
\* off-diagonal entries, each -1; a pinned row has diagonal 1 and no
\* off-diagonal entry; every diagonal is >= the sum of the absolute values
\* of the row's off-diagonal entries.
C6_DiagonalDominance ==
    Built =>
        \A p \in Points :
            LET r == flat(p)
                cols == {coefficients[n][2] : n \in InRow(r)} \ {r}
            IN  /\ cols \subseteq Ids
                /\ IF Pinned(p)
                   THEN A(r, r) = 1 /\ cols = {}
                   ELSE /\ A(r, r) = 4
                        /\ Cardinality(cols) <= 4
                        /\ \A c \in cols : A(r, c) = -1
                /\ A(r, r) >= SumAbsRow(r, cols)

\* A completed build with a pinned row and an unpinned row that has four
\* off-diagonal entries.
C6_Witness ==
    /\ Built
    /\ \E p \in Points : Pinned(p)
    /\ \E p \in Points :
          ~Pinned(p) /\ Cardinality({coefficients[n][2] : n \in InRow(flat(p))}) = 5

\* A step of the body of point (i,j) writes no rhs entry but rhs[id] and
\* appends at most one coefficient, whose row is id.
PointIsolated ==
    pc \in {"point", "west", "east", "north", "south", "self"} =>
        /\ \A k \in Ids : k # callId => b'[k] = b[k]
        /\ \/ coefficients' = coefficients
           \/ /\ Len(coefficients') = Len(coefficients) + 1
              /\ SubSeq(coefficients', 1, Len(coefficients)) = coefficients
              /\ coefficients'[Len(coefficients')][1] = callId

\* The row-major pass (second execution) ends with the rhs and the set of
\* coefficients of the any-order pass (first execution).
SameAsRowMajor ==
    run = 2 /\ Built =>
        /\ b = b1
        /\ Len(coefficients) = Len(coefficients1)
        /\ {coefficients[n] : n \in DOMAIN coefficients}
              = {coefficients1[n] : n \in DOMAIN coefficients1}

\* C7: processing a point writes only its own rhs entry and appends only
\* coefficients of its own row, and visiting every point once in any order
\* gives the rhs and the set of coefficients of the row-major loop.
C7_OrderIndependence == [][PointIsolated]_vars /\ [](SameAsRowMajor)

\* Both passes are complete, the any-order pass visited the points in an
\* order that produced a differently ordered list, and neighbours of pinned
\* points were folded.
C7_Witness ==
    /\ run = 2
    /\ Built
    /\ coefficients # coefficients1
    /\ \E p \in Points : ~Pinned(p) /\ \E q \in Neighbours(p) \cap Points : Pinned(q)

\* C8: the ids the assembler computes form a bijection from the grid points
\* onto 0..nx*ny-1; an off-diagonal coefficient's column is the id of a
\* grid neighbour of its row's point; result[j][i] is the solution entry of
\* the row assembled for (i,j), so every entry lands in exactly one cell.
C8_Flattening ==
    /\ Built =>
          /\ \A p \in Points : rowOf[p] \in Ids
          /\ \A p, q \in Points : rowOf[p] = rowOf[q] => p = q
          /\ \A id \in Ids : \E p \in Points : rowOf[p] = id
          /\ \A n \in DOMAIN coefficients :
                LET t == coefficients[n]
                IN  \E p \in Points :
                       /\ rowOf[p] = t[1]
                       /\ \/ t[2] = t[1]
                          \/ \E q \in Neighbours(p) \cap Points : rowOf[q] = t[2]
    /\ pc = "done" =>
          /\ \A p \in Points : result[p[2]][p[1]] = solution(rowOf[p])
          /\ \A id \in Ids :
                Cardinality({p \in Points : result[p[2]][p[1]] = solution(id)}) = 1

\* The result has been reshaped for a grid that is not square and has more
\* than one row and column.
C8_Witness ==
    /\ pc = "done"
    /\ nx > 1 /\ ny > 1 /\ nx # ny
    /\ \E n \in DOMAIN coefficients : coefficients[n][1] # coefficients[n][2]

\* C9: in every insertCoefficient call of buildProblem at most one of the
\* four out-of-grid conditions holds; when one holds the neighbour is folded
\* with that side's voltage even if it lies in an inclusion; an inclusion's
\* voltage is folded only for a neighbour inside the grid; a coefficient is
\* emitted only for a neighbour inside the grid and in no inclusion.
C9_BoxBeforeInclusion ==
    [][InCall =>
          /\ Cardinality({c \in {"w", "e", "n", "s"} :
                            \/ c = "w" /\ callNi = -1
                            \/ c = "e" /\ callNi = nx
                            \/ c = "n" /\ callNj = -1
                            \/ c = "s" /\ callNj = ny}) <= 1
          /\ callNi = -1 => FoldedWith(bc_grid[2]) /\ coefficients' = coefficients
          /\ callNi = nx => FoldedWith(bc_grid[3]) /\ coefficients' = coefficients
          /\ callNj = -1 => FoldedWith(bc_grid[0]) /\ coefficients' = coefficients
          /\ callNj = ny => FoldedWith(bc_grid[1]) /\ coefficients' = coefficients
          /\ ~OutOfGrid /\ Pinned(<<callNi, callNj>>) =>
                /\ FoldedWith(circles[FirstContaining(<<callNi, callNj>>)][4])
                /\ coefficients' = coefficients
          /\ ~OutOfGrid /\ ~Pinned(<<callNi, callNj>>) =>
                /\ coefficients' = Append(coefficients, <<callId, callNi + callNj * nx, callW>>)
                /\ b' = b]_vars

\* The west call of an unpinned point in column 0 has just folded the left
\* voltage although the position west of it lies in an inclusion.
C9_Witness ==
    /\ pc = "east"
    /\ i = 0
    /\ Pinned(<<-1, j>>)
    /\ bc_grid[2] = 4
    /\ b[callId] = 4

\* C10: after one pass from an empty list no two entries share a
\* (row, column) pair, and every row has exactly one diagonal entry, 1 if
\* the point is pinned and 4 otherwise.
C10_UniqueEntries ==
    Built =>
        /\ \A n, m \in DOMAIN coefficients :
              /\ coefficients[n][1] = coefficients[m][1]
              /\ coefficients[n][2] = coefficients[m][2]
              => n = m
        /\ \A p \in Points :
              \E n \in DOMAIN coefficients :
                  /\ At(flat(p), flat(p)) = {n}
                  /\ coefficients[n][3] = IF Pinned(p) THEN 1 ELSE 4

\* A completed pass on a single-column or single-row grid of more than one
\* point with pinned and unpinned points.
C10_Witness ==
    /\ Built
    /\ (nx = 1 /\ ny > 1) \/ (ny = 1 /\ nx > 1)
    /\ \E p, q \in Points : Pinned(p) /\ ~Pinned(q)

====
